---- MODULE Spec2Model ----
(***************************************************************************)
(* Model of ethsync.py: the indexer that mirrors the transactions of an    *)
(* Ethereum chain into the table public.ethtxs.                            *)
(*                                                                         *)
(* Strings are sequences of one-character strings, so that the Python      *)
(* slices of the decoder are computed as the code computes them.  A block  *)
(* hash is the pair <<height, fork>>: a reorganisation at height r gives   *)
(* every block at or above r a fresh fork number, so two blocks at the     *)
(* same height on different forks have different hashes.                   *)
(***************************************************************************)
EXTENDS Integers, Sequences, FiniteSets, Bags, TLC

VARIABLES
    CONFIRMATIONS_BLOCK, \* environment variable: NoEnv, or the number its text holds
    chainKind,           \* which transaction contents the node serves
    chainHead,           \* web3.eth.blockNumber
    forks,               \* heights of the reorganisations so far, oldest first
    store,               \* table public.ethtxs: a bag of rows
    pc,                  \* position of the process in the script
    exitCause,           \* why the process is not running ("" while it runs)
    latest_hash,         \* global latest_hash
    maxblockindb,        \* global maxblockindb of the current pass
    endblock,            \* global endblock of the current pass
    blockHeight,         \* loop variable of the for loop
    block,               \* block returned by the last getBlock of the pass
    txNumber,            \* loop variable of insertTxsFromBlock
    fr,                  \* local fr of insertTxsFromBlock (Unbound before assignment)
    to,                  \* local to of insertTxsFromBlock (Unbound before assignment)
    warned,              \* the padding warning was logged for the last transaction
    fetchedTop,          \* history: last height fetched for indexing since the start or rollback
    events,              \* disturbances so far (reorganisation, stale head, RPC or database error, kill)
    headRead,            \* history: web3.eth.blockNumber as read by the current pass
    reorgAt,             \* history: boundary height of the mismatch of this pass, 0 if none
    passes,              \* history: which pass of an undisturbed run this is, "later" otherwise
    restarted,           \* history: the process has been started more than once
    restartH,            \* history: max(block) found by the last restart, 0 if none or
                         \* if the chain has reorganised
    lostBelow,           \* history: rows below restartH were deleted since the restart
    trimmedPartial,      \* history: the tail-trim of that restart removed a block written
                         \* in part
    lastFetched          \* history: fork of the block last fetched at each height, NoFetch if none

engineVars == <<pc, exitCause, latest_hash, maxblockindb, endblock, blockHeight,
                block, txNumber, fr, to, warned, fetchedTop>>
chainVars == <<chainKind, chainHead, forks>>
historyVars == <<headRead, reorgAt, passes, restarted,
                 restartH, lostBelow, trimmedPartial, lastFetched>>
vars == <<CONFIRMATIONS_BLOCK, chainVars, store, engineVars, events, historyVars>>

-----------------------------------------------------------------------------
(* Bounds of the model *)

MaxHead == 13       \* the chain grows up to this height
MaxReorgDepth == 2  \* a reorganisation replaces at most this many top blocks
MaxEvents == 1      \* disturbances of a run: reorganisations, stale heads, RPC and database errors, kills

(* Program constants *)

startBlock == 1              \* environ.get("START_BLOCK") or "1"
DefaultConfirmations == 0    \* environ.get("CONFIRMATIONS_BLOCK") or "0"
DefaultReorgBlocks == 10     \* environ.get("CONFIRMATIONS_BLOCK") or 10

NoEnv == -1                  \* environ.get returned None
SqlNull == -1                \* Max(block) of an empty table
NoStatusKey == -1            \* the receipt has no key "status"
NoFetch == -1                \* no block of the height was fetched yet
Unbound == "<unbound>"       \* a local name not yet assigned
Missing == "<missing>"       \* a key the mapping does not have
NoHash == <<>>               \* latest_hash = ''
NoBlock == [number |-> 0, hash |-> NoHash, parentHash |-> NoHash, timestamp |-> 0,
            transactions |-> <<>>]

Max(S) == CHOOSE x \in S : \A y \in S : y <= x
Min(S) == CHOOSE x \in S : \A y \in S : x <= y

-----------------------------------------------------------------------------
(* Python strings *)

Rep(c, n) == [i \in 1..n |-> c]

\* s[a:b] for a, b that may be negative; b = Len(s) stands for an omitted end
PySlice(s, a, b) ==
    LET n == Len(s)
        norm(i) == IF i < 0 THEN Max({n + i, 0}) ELSE Min({i, n})
        lo == norm(a)
        hi == norm(b)
    IN IF lo < hi THEN SubSeq(s, lo + 1, hi) ELSE <<>>

\* s[a:]
PyTail(s, a) == PySlice(s, a, Len(s))

startswith(s, p) == Len(s) >= Len(p) /\ SubSeq(s, 1, Len(p)) = p

Selector == <<"0", "x", "a", "9", "0", "5", "9", "c", "b", "b">>
Zeros24 == Rep("0", 24)
Prefix0x == <<"0", "x">>

-----------------------------------------------------------------------------
(* Transactions and blocks served by the node *)

AddrHex == <<"9", "f", "0", "6", "6", "b", "6", "d", "d", "c", "3", "9", "9", "d", "c", "b", "c", "7", "c", "5">>
           \o <<"9", "6", "a", "d", "7", "d", "9", "7", "b", "7", "9", "2", "4", "7", "c", "8", "5", "a", "f", "b">>
Value64 == Rep("0", 60) \o <<"0", "3", "e", "8">>
BadPad24 == Rep("0", 23) \o <<"1">>
OtherCall == Prefix0x \o <<"1", "2", "3", "4", "5", "6", "7", "8">>

InputPlain == Prefix0x
InputToken == Selector \o Zeros24 \o AddrHex \o Value64
InputTokenPad == Selector \o BadPad24 \o AddrHex \o Value64
InputTokenLong == Selector \o Zeros24 \o AddrHex \o Value64 \o Rep("f", 2)
InputTokenShort == Selector \o AddrHex

Tx(h, v, i, value, input, from, txto, status) ==
    [hash |-> <<h, v, i>>, value |-> value, input |-> input, from |-> from,
     to |-> txto, gasPrice |-> 1, status |-> status, gasUsed |-> 21]

Plain(h, v, i) == Tx(h, v, i, 1, InputPlain, "A", "B", 1)
Noise(h, v, i) == Tx(h, v, i, 0, OtherCall, "A", "C", 1)
PayData(h, v, i) == Tx(h, v, i, 2, OtherCall, "B", "C", 0)
Token(h, v, i) == Tx(h, v, i, 0, InputToken, "A", "C", 1)
TokenPad(h, v, i) == Tx(h, v, i, 0, InputTokenPad, "A", "C", 1)
TokenLong(h, v, i) == Tx(h, v, i, 0, InputTokenLong, "B", "C", 1)
TokenShort(h, v, i) == Tx(h, v, i, 3, InputTokenShort, "B", "C", 1)
NoFrom(h, v, i) == Tx(h, v, i, 1, InputPlain, Missing, "D", 1)
NoTo(h, v, i) == Tx(h, v, i, 1, InputPlain, "E", Missing, 1)
NoStatus(h, v, i) == Tx(h, v, i, 1, InputPlain, "A", "B", NoStatusKey)
NoiseNoStatus(h, v, i) == Tx(h, v, i, 0, OtherCall, "A", "C", NoStatusKey)

ChainKinds == {"regular", "malformed"}

\* The transactions of the block at height h on fork v
TxsOf(kind, h, v) ==
    LET p == (h + 2 * v + 1) % 4
        q == (h \div 4) % 4
    IN IF kind = "regular"
       THEN CASE p = 0 -> <<Plain(h, v, 1), Noise(h, v, 2), PayData(h, v, 3)>>
              [] p = 1 -> <<>>
              [] p = 2 -> <<Noise(h, v, 1)>>
              [] OTHER -> CASE q = 0 -> <<Token(h, v, 1)>>
                            [] q = 1 -> <<TokenPad(h, v, 1)>>
                            [] q = 2 -> <<TokenLong(h, v, 1)>>
                            [] OTHER -> <<TokenShort(h, v, 1)>>
       ELSE CASE p = 0 -> <<NoStatus(h, v, 1)>>
              [] p = 1 -> <<NoFrom(h, v, 1)>>
              [] p = 2 -> <<NoiseNoStatus(h, v, 1)>>
              [] OTHER -> <<Plain(h, v, 1), NoFrom(h, v, 2), NoTo(h, v, 3)>>

\* Fork of the block at height h: the last reorganisation at or below h
ForkOf(fk, h) == Max({0} \cup {i \in 1..Len(fk) : fk[i] <= h})

HashOf(fk, h) == <<h, ForkOf(fk, h)>>

\* web3.eth.getBlock(h, True)
getBlock(kind, fk, h) ==
    [number |-> h, hash |-> HashOf(fk, h), parentHash |-> HashOf(fk, h - 1),
     timestamp |-> h, transactions |-> TxsOf(kind, h, ForkOf(fk, h))]

-----------------------------------------------------------------------------
(* insertTxsFromBlock: the body of the loop for one transaction *)

IsTransfer(inputinfo) == startswith(inputinfo, Selector)

contract_to(inputinfo) ==
    IF IsTransfer(inputinfo) THEN Prefix0x \o PySlice(inputinfo, -104, -64) ELSE <<>>

contract_value(inputinfo) ==
    IF IsTransfer(inputinfo) THEN PyTail(inputinfo, -64) ELSE <<>>

PaddingWarning(inputinfo) ==
    IsTransfer(inputinfo) /\ PySlice(inputinfo, -128, -104) # Zeros24

\* Mutant: the value is not looked at
SkippedUnlessTransfer(trans) == ~IsTransfer(trans.input)

\* value == 0 and not inputinfo.startswith("0xa9059cbb"): continue
Skipped(trans) == trans.value = 0 /\ ~IsTransfer(trans.input)

\* fr and to after the two try blocks
FrAfter(trans, f) == IF trans.from = Missing THEN f ELSE trans.from
ToAfter(trans, t) == IF trans.to = Missing THEN t ELSE trans.to

\* The receipt of a transaction as mined in its block
ReceiptOf(trans) == [found |-> "yes", status |-> trans.status, gasUsed |-> trans.gasUsed]

\* web3.eth.getTransactionReceipt(trans["hash"]): the answers the node can give.
\* While the block of the transaction is on the chain the answer is its receipt.
\* Once the block is replaced the node may answer with the receipt of the
\* transaction as included again (the same result or another one), with None,
\* or raise.
getTransactionReceipt(fk, trans) ==
    IF ForkOf(fk, trans.hash[1]) = trans.hash[2]
    THEN {ReceiptOf(trans)}
    ELSE {ReceiptOf(trans), [found |-> "yes", status |-> 0, gasUsed |-> 50]}
         \cup {[found |-> "none", status |-> 0, gasUsed |-> 0],
                [found |-> "raise", status |-> 0, gasUsed |-> 0]}

\* bool(transReceipt["status"])
StatusOf(rcpt) == rcpt.status # 0

Row(blk, trans, rcpt, f, t) ==
    [time |-> blk.timestamp, txfrom |-> f, txto |-> t, value |-> trans.value,
     gas |-> rcpt.gasUsed, gasprice |-> trans.gasPrice, block |-> blk.number,
     txhash |-> trans.hash, contract_to |-> contract_to(trans.input),
     contract_value |-> contract_value(trans.input), status |-> StatusOf(rcpt)]

\* What the body does with one transaction and the answer of the node:
\* "notfound" (the receipt read raises), "typeerror" (the answer is None),
\* "keyerror" (receipt without status), "skip", "unbound" (fr or to never
\* assigned) or "insert"
TxOutcome(trans, rcpt, f, t) ==
    IF rcpt.found = "raise" THEN "notfound"
    ELSE IF rcpt.found = "none" THEN "typeerror"
    ELSE IF rcpt.status = NoStatusKey THEN "keyerror"
    ELSE IF Skipped(trans) THEN "skip"
    ELSE IF FrAfter(trans, f) = Unbound \/ ToAfter(trans, t) = Unbound THEN "unbound"
    ELSE "insert"

\* The exception that ends the process for an outcome that raises
ExceptionOf(outcome) ==
    CASE outcome = "notfound" -> "rpc"
      [] outcome = "typeerror" -> "TypeError"
      [] outcome = "keyerror" -> "KeyError"
      [] OTHER -> "UnboundLocalError"
-----------------------------------------------------------------------------
(* Configuration and the table *)

\* int(confirmationBlocks)
confirmationBlocks ==
    IF CONFIRMATIONS_BLOCK = NoEnv THEN DefaultConfirmations ELSE CONFIRMATIONS_BLOCK

\* reorg_blocks is the int 10 when the variable is unset, and otherwise the
\* text of the variable, which is never converted
ReorgBlocksIsInt == CONFIRMATIONS_BLOCK = NoEnv
reorg_blocks == IF ReorgBlocksIsInt THEN DefaultReorgBlocks ELSE CONFIRMATIONS_BLOCK

Blocks(s) == {r.block : r \in DOMAIN s}

\* SELECT Max(block) from public.ethtxs
MaxBlock(s) == IF DOMAIN s = {} THEN SqlNull ELSE Max(Blocks(s))

\* Mutant: the DELETE has no WHERE clause
TailTrimAll(s) == EmptyBag

\* DELETE FROM public.ethtxs WHERE block = (SELECT Max(block) from public.ethtxs)
TailTrim(s) == [r \in {x \in DOMAIN s : x.block # MaxBlock(s)} |-> s[r]]

\* Mutant: the lower end of the range is not tested
DeleteUpTo(s, begin_block, end_block) ==
    [r \in {x \in DOMAIN s : ~(x.block <= end_block)} |-> s[r]]

\* DELETE from ethtxs CASCADE WHERE block > begin_block AND block <= end_block
DeleteRange(s, begin_block, end_block) ==
    [r \in {x \in DOMAIN s : ~(x.block > begin_block /\ x.block <= end_block)} |-> s[r]]

\* cur.execute("INSERT INTO public.ethtxs ...")
InsertRow(s, row) == s (+) SetToBag({row})

-----------------------------------------------------------------------------
(* What the table should hold for a block *)

\* The block with hash <<h, v>>.  Its parent is on the last fork at or before v
\* that reaches height h - 1: a later fork that replaced h - 1 replaced h too.
BlockOfHash(kind, fk, hash) ==
    LET h == hash[1]
        v == hash[2]
    IN [number |-> h, hash |-> hash,
        parentHash |-> <<h - 1, ForkOf(SubSeq(fk, 1, v), h - 1)>>,
        timestamp |-> h, transactions |-> TxsOf(kind, h, v)]

\* The rows insertTxsFromBlock writes for blk from transaction i on while the
\* block is on the chain, and whether it reaches the end of the block
RECURSIVE IngestFrom(_, _, _, _)
IngestFrom(blk, i, f, t) ==
    IF i > Len(blk.transactions) THEN [rows |-> {}, ok |-> TRUE]
    ELSE LET trans == blk.transactions[i]
             outcome == TxOutcome(trans, ReceiptOf(trans), f, t)
         IN IF outcome \in {"keyerror", "unbound"} THEN [rows |-> {}, ok |-> FALSE]
            ELSE IF outcome = "skip" THEN IngestFrom(blk, i + 1, f, t)
            ELSE LET rest == IngestFrom(blk, i + 1, FrAfter(trans, f), ToAfter(trans, t))
                 IN [rows |-> {Row(blk, trans, ReceiptOf(trans), FrAfter(trans, f),
                                   ToAfter(trans, t))}
                              \cup rest.rows,
                     ok |-> rest.ok]

Ingest(blk) == IngestFrom(blk, 1, Unbound, Unbound)

\* Ingest of every block the node can serve, by kind, height and fork
WholeBlocks ==
    [kind \in ChainKinds |-> [h \in 1..MaxHead |-> [v \in 0..MaxEvents |->
        Ingest([number |-> h, hash |-> <<h, v>>, parentHash |-> NoHash,
                timestamp |-> h, transactions |-> TxsOf(kind, h, v)])]]]

\* Transactions of every block the node can serve
ChainData ==
    [kind \in ChainKinds |-> [h \in 1..MaxHead |-> [v \in 0..MaxEvents |->
        TxsOf(kind, h, v)]]]

\* Hashes of the transactions of every block that are not skipped
QualifyingHashes ==
    [kind \in ChainKinds |-> [h \in 1..MaxHead |-> [v \in 0..MaxEvents |->
        {ChainData[kind][h][v][i].hash :
            i \in {j \in 1..Len(ChainData[kind][h][v]) : ~Skipped(ChainData[kind][h][v][j])}}]]]

HashOfRow(r) == <<r.txhash[1], r.txhash[2]>>

RowsAt(s, h) == {r \in DOMAIN s : r.block = h}

\* The rows of height h are those of the transactions of one whole block, one
\* row for each
Complete(s, h) ==
    \E r \in RowsAt(s, h) :
        LET whole == QualifyingHashes[chainKind][h][r.txhash[2]]
        IN /\ {x.txhash : x \in RowsAt(s, h)} = whole
           /\ Cardinality(RowsAt(s, h)) = Cardinality(whole)
           /\ \A x \in RowsAt(s, h) : s[x] = 1

-----------------------------------------------------------------------------
(* The main loop *)

\* Mutant: the cursor is not read from the table
CursorFromStart(s) == startBlock

\* maxblockindb after the query and the test for None
Cursor(s) == IF MaxBlock(s) = SqlNull THEN startBlock ELSE MaxBlock(s)

\* Mutant: the confirmation depth is not subtracted
SafeHeadNoDepth(head, conf) == head

\* endblock = int(web3.eth.blockNumber) - int(confirmationBlocks)
SafeHead(head, conf) == head - conf

\* Mutant: the range starts at the cursor itself
FirstHeightAtCursor(maxb) == maxb

\* Mutant: the range starts one height too far
FirstHeightSkipsOne(maxb) == maxb + 2

\* first value of range(maxblockindb + 1, endblock + 1)
FirstHeight(maxb) == maxb + 1

\* Mutant: the boundary block is never compared
MismatchNeverFound(h, e, lh, blk) == FALSE

\* blockHeight == endblock and latest_hash != block['parentHash'].hex()
Mismatch(h, e, lh, blk) == h = e /\ lh # blk.parentHash

Init ==
    /\ CONFIRMATIONS_BLOCK \in {NoEnv, 1}
    /\ chainKind \in ChainKinds
    /\ chainHead = startBlock
    /\ forks = <<>>
    /\ store = EmptyBag
    /\ pc = "startup"
    /\ exitCause = ""
    /\ latest_hash = NoHash
    /\ maxblockindb = 0
    /\ endblock = 0
    /\ blockHeight = 0
    /\ block = NoBlock
    /\ txNumber = 0
    /\ fr = Unbound
    /\ to = Unbound
    /\ warned = FALSE
    /\ events = 0
    /\ headRead = 0
    /\ reorgAt = 0
    /\ passes = "none"
    /\ restarted = FALSE
    /\ restartH = 0
    /\ lostBelow = FALSE
    /\ trimmedPartial = FALSE
    /\ fetchedTop = 0
    /\ lastFetched = [h \in 1..MaxHead |-> NoFetch]

\* The pass after pass p: the first, the second, or a later one
NextPass(p) ==
    CASE p = "none" -> "first"
      [] p = "first" -> "second"
      [] OTHER -> "later"

\* The process ends: its memory is gone
Stop(cause) ==
    /\ pc' = "stopped"
    /\ exitCause' = cause
    /\ latest_hash' = NoHash
    /\ maxblockindb' = 0
    /\ endblock' = 0
    /\ blockHeight' = 0
    /\ block' = NoBlock
    /\ txNumber' = 0
    /\ fr' = Unbound
    /\ to' = Unbound
    /\ fetchedTop' = 0

Running == pc \notin {"stopped", "startup"}

\* The process reads the head in LoopTop only, blocks in Fetch and receipts in
\* InsertTx.  A change of the chain at any other moment cannot be told from the
\* same change just before the next read, so the chain moves only when such a
\* read is next.
HeadReadIsNext == pc = "loop"
BlockReadIsNext == pc \in {"loop", "fetch", "insert"}

\* The chain grows by one block
Advance ==
    /\ HeadReadIsNext
    /\ chainHead < MaxHead
    /\ chainHead' = chainHead + 1
    /\ UNCHANGED <<CONFIRMATIONS_BLOCK, chainKind, forks, store, engineVars, events,
                   historyVars>>

\* The chain reorganises: the blocks from height r on are replaced
Reorg ==
    /\ BlockReadIsNext
    /\ events < MaxEvents
    /\ events' = events + 1
    /\ \E r \in (chainHead - MaxReorgDepth + 1)..chainHead :
          /\ r > startBlock
          /\ forks' = Append(forks, r)
    /\ restartH' = 0
    /\ lostBelow' = FALSE
    /\ trimmedPartial' = FALSE
    /\ UNCHANGED <<CONFIRMATIONS_BLOCK, chainKind, chainHead, store, engineVars,
                   headRead, reorgAt, passes, restarted, lastFetched>>

\* The node serves a stale view: web3.eth.blockNumber is lower than it was
StaleHead ==
    /\ HeadReadIsNext
    /\ events < MaxEvents
    /\ events' = events + 1
    /\ \E d \in 1..MaxReorgDepth :
          /\ chainHead - d >= startBlock
          /\ chainHead' = chainHead - d
    /\ UNCHANGED <<CONFIRMATIONS_BLOCK, chainKind, forks, store, engineVars,
                   historyVars>>

\* Lines 73-89: connect, then delete the last block
Startup ==
    /\ pc = "startup"
    /\ store' = TailTrim(store)
    /\ pc' = "syncwait"
    /\ restartH' = IF restarted /\ forks = <<>> /\ MaxBlock(store) # SqlNull
                   THEN MaxBlock(store) ELSE 0
    /\ lostBelow' = FALSE
    /\ trimmedPartial' = (/\ forks = <<>>
                          /\ \E h \in Blocks(store) :
                                h = MaxBlock(store) /\ ~Complete(store, h))
    /\ passes' = "none"
    /\ reorgAt' = 0
    /\ headRead' = 0
    /\ UNCHANGED <<CONFIRMATIONS_BLOCK, chainVars, exitCause, latest_hash,
                   maxblockindb, endblock, blockHeight, block, txNumber, fr, to,
                   warned, fetchedTop, events, restarted, lastFetched>>

\* Lines 73-81: the connection fails and the script calls exit(1)
StartupFails ==
    /\ pc = "startup"
    /\ events < MaxEvents
    /\ events' = events + 1
    /\ Stop("exit")
    /\ UNCHANGED <<CONFIRMATIONS_BLOCK, chainVars, store, warned, historyVars>>

\* Lines 92-98, 173: wait until the node is in sync, then latest_hash = ''
SyncWait ==
    /\ pc = "syncwait"
    /\ \E syncing \in BOOLEAN : pc' = IF syncing THEN "syncwait" ELSE "loop"
    /\ latest_hash' = NoHash
    /\ UNCHANGED <<CONFIRMATIONS_BLOCK, chainVars, store, exitCause, maxblockindb,
                   endblock, blockHeight, block, txNumber, fr, to, warned, fetchedTop,
                   events, historyVars>>

\* Lines 176-202: connect, read the cursor and the head, enter the for loop
LoopTop ==
    /\ pc = "loop"
    /\ maxblockindb' = Cursor(store)
    /\ endblock' = SafeHead(chainHead, confirmationBlocks)
    /\ headRead' = chainHead
    /\ passes' = IF events = 0 /\ ~restarted THEN NextPass(passes) ELSE "later"
    /\ reorgAt' = 0
    /\ block' = NoBlock
    /\ IF FirstHeight(maxblockindb') <= endblock'
       THEN pc' = "fetch" /\ blockHeight' = FirstHeight(maxblockindb')
       ELSE pc' = "sleep" /\ blockHeight' = 0
    /\ UNCHANGED <<CONFIRMATIONS_BLOCK, chainVars, store, exitCause, latest_hash,
                   txNumber, fr, to, warned, fetchedTop, events, restarted, restartH,
                   lostBelow, trimmedPartial, lastFetched>>

\* Lines 176-191: the connection, the query or web3.eth.blockNumber raises
LoopFails ==
    /\ pc = "loop"
    /\ events < MaxEvents
    /\ events' = events + 1
    /\ \E cause \in {"db", "rpc"} : Stop(cause)
    /\ UNCHANGED <<CONFIRMATIONS_BLOCK, chainVars, store, warned, historyVars>>

\* Lines 213-222 and the step of the for loop
AfterBlock(h) ==
    IF h < endblock
    THEN pc' = "fetch" /\ blockHeight' = h + 1
    ELSE pc' = "sleep" /\ blockHeight' = h

\* Lines 203-211, 220-222: fetch a block; at the boundary compare the hashes and
\* either roll back or go on to index the block
Fetch ==
    /\ pc = "fetch"
    /\ LET blk == getBlock(chainKind, forks, blockHeight) IN
       IF Mismatch(blockHeight, endblock, latest_hash, blk)
       THEN IF ReorgBlocksIsInt
            THEN \* delete_last_blocks_from_db(blockHeight-1-reorg_blocks, blockHeight-1)
                 /\ store' = DeleteRange(store, blockHeight - 1 - reorg_blocks,
                                         blockHeight - 1)
                 /\ lostBelow' = (lostBelow \/ \E r \in DOMAIN store :
                                     /\ r.block < restartH
                                     /\ r \notin DOMAIN store')
                 /\ reorgAt' = blockHeight
                 /\ block' = blk
                 /\ pc' = "sleep"
                 /\ fetchedTop' = 0
                 /\ UNCHANGED <<exitCause, latest_hash, maxblockindb, endblock,
                                blockHeight, txNumber, fr, to, warned>>
            ELSE \* int - str raises TypeError
                 /\ Stop("TypeError")
                 /\ reorgAt' = blockHeight
                 /\ UNCHANGED <<store, lostBelow, warned>>
       ELSE /\ block' = blk
            /\ fetchedTop' = blockHeight
            /\ IF Len(blk.transactions) > 0
               THEN /\ pc' = "insert"
                    /\ txNumber' = 0
                    /\ fr' = Unbound
                    /\ to' = Unbound
                    /\ UNCHANGED <<latest_hash, blockHeight>>
               ELSE /\ latest_hash' = blk.hash
                    /\ AfterBlock(blockHeight)
                    /\ UNCHANGED <<txNumber, fr, to>>
            /\ UNCHANGED <<store, exitCause, maxblockindb, endblock, warned,
                           lostBelow, reorgAt>>
    /\ lastFetched' = [lastFetched EXCEPT ![blockHeight] = ForkOf(forks, blockHeight)]
    /\ UNCHANGED <<CONFIRMATIONS_BLOCK, chainVars, events, headRead, passes, restarted,
                   restartH, trimmedPartial>>

\* Line 168: the DELETE of the rollback raises; the error is logged and the
\* loop goes on
RollbackFails ==
    /\ pc = "fetch"
    /\ events < MaxEvents
    /\ Mismatch(blockHeight, endblock, latest_hash,
                getBlock(chainKind, forks, blockHeight))
    /\ ReorgBlocksIsInt
    /\ events' = events + 1
    /\ reorgAt' = blockHeight
    /\ block' = getBlock(chainKind, forks, blockHeight)
    /\ pc' = "sleep"
    /\ fetchedTop' = 0
    /\ lastFetched' = [lastFetched EXCEPT ![blockHeight] = ForkOf(forks, blockHeight)]
    /\ UNCHANGED <<CONFIRMATIONS_BLOCK, chainVars, store, exitCause, latest_hash,
                   maxblockindb, endblock, blockHeight, txNumber, fr, to, warned,
                   headRead, passes, restarted, restartH,
                   lostBelow, trimmedPartial>>

\* Line 203: web3.eth.getBlock raises
FetchFails ==
    /\ pc = "fetch"
    /\ events < MaxEvents
    /\ events' = events + 1
    /\ Stop("rpc")
    /\ UNCHANGED <<CONFIRMATIONS_BLOCK, chainVars, store, warned, historyVars>>

\* Lines 105-164: one transaction of the block, with the receipt the node
\* answers; after the last one lines 213-222
InsertTx ==
    /\ pc = "insert"
    /\ \E rcpt \in getTransactionReceipt(forks, block.transactions[txNumber + 1]) :
       LET trans == block.transactions[txNumber + 1]
           outcome == TxOutcome(trans, rcpt, fr, to)
           last == txNumber + 1 = Len(block.transactions)
       IN
       IF outcome \in {"notfound", "typeerror", "keyerror", "unbound"}
       THEN /\ Stop(ExceptionOf(outcome))
            \* the warning of line 129 comes after lines 106-108 and before line 149
            /\ warned' = IF outcome = "unbound" THEN PaddingWarning(trans.input)
                          ELSE warned
            /\ UNCHANGED store
       ELSE /\ IF outcome = "insert"
               THEN /\ store' = InsertRow(store, Row(block, trans, rcpt,
                                                     FrAfter(trans, fr),
                                                     ToAfter(trans, to)))
                    /\ fr' = FrAfter(trans, fr)
                    /\ to' = ToAfter(trans, to)
               ELSE UNCHANGED <<store, fr, to>>
            /\ warned' = PaddingWarning(trans.input)
            /\ IF last
               THEN /\ latest_hash' = block.hash
                    /\ AfterBlock(blockHeight)
                    /\ txNumber' = 0
               ELSE /\ txNumber' = txNumber + 1
                    /\ UNCHANGED <<pc, latest_hash, blockHeight>>
            /\ UNCHANGED <<exitCause, maxblockindb, endblock, block, fetchedTop>>
    /\ UNCHANGED <<CONFIRMATIONS_BLOCK, chainVars, events, historyVars>>

\* The transaction at hand reaches the INSERT of line 149 with some answer of
\* the node
ReachesInsert ==
    \E rcpt \in getTransactionReceipt(forks, block.transactions[txNumber + 1]) :
        TxOutcome(block.transactions[txNumber + 1], rcpt, fr, to) = "insert"

\* Lines 106, 149: getTransactionReceipt raises, or the INSERT of a transaction
\* that reaches it; the INSERT comes after the warning of line 129
InsertFails ==
    /\ pc = "insert"
    /\ events < MaxEvents
    /\ events' = events + 1
    /\ \E cause \in {"db", "rpc"} :
          /\ cause = "db" => ReachesInsert
          /\ Stop(cause)
          /\ warned' = IF cause = "db"
                        THEN PaddingWarning(block.transactions[txNumber + 1].input)
                        ELSE warned
    /\ UNCHANGED <<CONFIRMATIONS_BLOCK, chainVars, store, historyVars>>

\* Lines 223-225: close the connection and sleep
Sleep ==
    /\ pc = "sleep"
    /\ pc' = "loop"
    /\ UNCHANGED <<CONFIRMATIONS_BLOCK, chainVars, store, exitCause, latest_hash,
                   maxblockindb, endblock, blockHeight, block, txNumber, fr, to,
                   warned, fetchedTop, events, historyVars>>

\* The process is killed from outside (power loss, signal), at any line from
\* the connect of line 76 on, before the statement it is in has written:
\*   "start"   at the statement it is about to execute;
\*   "insert"  inside the INSERT of line 149, after the warning of line 129;
\*   "fetched" after getBlock of line 203 has returned and before the next
\*             write or read: at the boundary with a mismatch (line 205) in
\*             the warning of line 207, at line 208 or inside the DELETE of
\*             line 168, otherwise in lines 211-221.
Kill ==
    /\ pc # "stopped"
    /\ events < MaxEvents
    /\ events' = events + 1
    /\ Stop("killed")
    /\ \E at \in {"start", "insert", "fetched"} :
          /\ at = "insert" => (pc = "insert" /\ ReachesInsert)
          /\ at = "fetched" => pc = "fetch"
          /\ warned' = IF at = "insert"
                        THEN PaddingWarning(block.transactions[txNumber + 1].input)
                        ELSE warned
          /\ reorgAt' = IF /\ at = "fetched"
                            /\ Mismatch(blockHeight, endblock, latest_hash,
                                        getBlock(chainKind, forks, blockHeight))
                         THEN blockHeight ELSE reorgAt
          /\ lastFetched' = IF at = "fetched"
                             THEN [lastFetched EXCEPT
                                      ![blockHeight] = ForkOf(forks, blockHeight)]
                             ELSE lastFetched
    /\ UNCHANGED <<CONFIRMATIONS_BLOCK, chainVars, store, headRead, passes, restarted,
                   restartH, lostBelow, trimmedPartial>>

\* The script is started again
Restart ==
    /\ pc = "stopped"
    /\ pc' = "startup"
    /\ exitCause' = ""
    /\ restarted' = TRUE
    /\ UNCHANGED <<CONFIRMATIONS_BLOCK, chainVars, store, latest_hash, maxblockindb,
                   endblock, blockHeight, block, txNumber, fr, to, warned, fetchedTop,
                   events, headRead, reorgAt, passes, restartH,
                   lostBelow, trimmedPartial, lastFetched>>

Next ==
    \/ Advance
    \/ Reorg
    \/ StaleHead
    \/ Startup
    \/ StartupFails
    \/ SyncWait
    \/ LoopTop
    \/ LoopFails
    \/ Fetch
    \/ RollbackFails
    \/ FetchFails
    \/ InsertTx
    \/ InsertFails
    \/ Sleep
    \/ Kill
    \/ Restart

Spec == Init /\ [][Next]_vars

\* The script on an undisturbed node: the chain only grows, nothing fails
NextQuiet ==
    \/ Advance
    \/ Startup
    \/ SyncWait
    \/ LoopTop
    \/ Fetch
    \/ InsertTx
    \/ Sleep

\* The node ends up in sync
SyncDone == SyncWait /\ pc' = "loop"

\* The script keeps running: every statement that can execute does, and the
\* sleeps end.  The chain is not required to grow.
FairSpec ==
    /\ Init
    /\ [][NextQuiet]_vars
    /\ WF_vars(Startup)
    /\ WF_vars(SyncDone)
    /\ WF_vars(LoopTop)
    /\ WF_vars(Fetch)
    /\ WF_vars(InsertTx)
    /\ WF_vars(Sleep)
-----------------------------------------------------------------------------
(* Properties *)

TxOfRow(r) == ChainData[chainKind][r.txhash[1]][r.txhash[2]][r.txhash[3]]

\* The boundary block of the pass passed the comparison and is being indexed
\* or has been indexed
BoundaryAccepted ==
    /\ pc \in {"insert", "sleep", "loop"}
    /\ block.number # 0
    /\ block.number = endblock
    /\ reorgAt = 0

\* C1 as stated: for any two consecutive heights that both have rows in the
\* table, the parentHash of the block indexed at the upper height equals the
\* hash of the block indexed at the lower height.
C1_Continuity ==
    \A x \in DOMAIN store : \A y \in DOMAIN store :
        x.block = y.block + 1
            => BlockOfHash(chainKind, forks, HashOfRow(x)).parentHash = HashOfRow(y)

\* C1 as amended: continuity holds for the link the code compares.  When the
\* boundary block of a pass is accepted, its parentHash equals the hash of the
\* block whose rows the table holds one height below.
C1_BoundaryContinuity ==
    BoundaryAccepted
        => \A y \in RowsAt(store, block.number - 1) : HashOfRow(y) = block.parentHash

\* C1 witness: after a reorganisation a boundary block of the new fork has been
\* indexed on top of a block that has rows.
C1_Witness ==
    /\ BoundaryAccepted
    /\ pc = "sleep"
    /\ forks # <<>>
    /\ block.hash[2] = 1
    /\ RowsAt(store, block.number - 1) # {}
    /\ RowsAt(store, block.number) # {}

\* C2: once a pass has found the mismatch at boundary height E, the table holds
\* no row with block in (E-1-R, E-1], R the configured window, and the next pass
\* starts at height E-R or lower (or at the first height after the start height).
C2_ReorgRollback ==
    reorgAt # 0
        => /\ \A r \in DOMAIN store :
                 ~(r.block > reorgAt - 1 - reorg_blocks /\ r.block <= reorgAt - 1)
           /\ Cursor(store) + 1 <= Max({reorgAt - reorg_blocks, startBlock + 1})

\* C3: after a restart on a chain that has not reorganised, no row of a block
\* below H, the highest block of the table at the restart, is deleted.
C3_IdempotentRestart ==
    (restarted /\ forks = <<>>) => ~lostBelow

\* C4: during a pass safeHead is the head read at the start of the pass minus
\* the confirmation depth, and no block above it has been fetched; the fetched
\* block is at least that deep below the head the pass read.
C4_ConfirmationMath ==
    (Running /\ passes # "none")
        => /\ endblock = headRead - confirmationBlocks
           /\ blockHeight <= Max({endblock, 0})
           /\ block.number <= Max({endblock, 0})
           /\ block.number # 0 => block.number + confirmationBlocks <= headRead

\* C4 witness: with one confirmation the block at the safe head is being indexed
\* while the chain is one block longer.
C4_Witness ==
    /\ pc = "insert"
    /\ confirmationBlocks = 1
    /\ block.number = endblock
    /\ chainHead = endblock + 1

\* Rows of all the blocks from lo to hi of the chain as it is
ExpectedRows(lo, hi) ==
    UNION {WholeBlocks[chainKind][h][ForkOf(forks, h)].rows : h \in lo..hi}

\* C5: starting from an empty table with confirmations 0 and no reorganisation,
\* the first pass, having read head S+k (k >= 1), ends with the rows of blocks
\* S+1..S+k in the table and the last seen hash at block S+k; and a second pass
\* that reads head S+k+1 starts fetching at S+k+1.
C5_EndToEnd ==
    (~restarted /\ events = 0 /\ confirmationBlocks = 0 /\ chainKind = "regular")
        => /\ (passes = "first" /\ pc = "sleep" /\ headRead > startBlock)
                 => /\ latest_hash = <<headRead, 0>>
                    /\ DOMAIN store = ExpectedRows(startBlock + 1, headRead)
           /\ (passes = "second" /\ pc = "fetch" /\ blockHeight = FirstHeight(maxblockindb)
                 /\ latest_hash = <<headRead - 1, 0>>)
                 => blockHeight = headRead

\* C6: the rows of a block are written as one unit, so outside
\* insertTxsFromBlock, and in particular after a crash between two inserts of a
\* block, no block of the table is written in part.
C6_SingleUnit ==
    pc # "insert" => \A h \in Blocks(store) : Complete(store, h)

\* The last block fetched has been through insertTxsFromBlock to its end
BlockProcessed ==
    /\ pc \in {"fetch", "sleep", "loop"}
    /\ block.number # 0
    /\ reorgAt = 0
    /\ latest_hash = block.hash

\* C7: no row belongs to a transaction with value 0 whose input does not start
\* with the selector, and every transaction with value > 0 of a processed block
\* has a row.
C7_NoiseFiltering ==
    /\ \A r \in DOMAIN store :
          ~(TxOfRow(r).value = 0 /\ ~startswith(TxOfRow(r).input, Selector))
    /\ BlockProcessed
          => \A i \in 1..Len(block.transactions) :
                block.transactions[i].value > 0
                    => \E r \in DOMAIN store : r.txhash = block.transactions[i].hash

\* C7 witness: a block with a zero-value call and a paying call with the same
\* arbitrary input has been processed.
C7_Witness ==
    /\ BlockProcessed
    /\ \E i \in 1..Len(block.transactions) :
          block.transactions[i].value = 0 /\ block.transactions[i].input = OtherCall
    /\ \E i \in 1..Len(block.transactions) :
          block.transactions[i].value > 0 /\ block.transactions[i].input = OtherCall

\* C8: for every row of a transfer call whose input holds the two argument
\* slots, contract_to is 0x and the lower 40 characters of the first slot and
\* contract_value is the second slot.
C8_DecoderCorrectness ==
    \A r \in DOMAIN store :
        LET input == TxOfRow(r).input IN
        (startswith(input, Selector) /\ Len(input) >= 138)
            => /\ r.contract_to = Prefix0x \o SubSeq(input, 35, 74)
               /\ r.contract_value = SubSeq(input, 75, 138)

\* C9: the table never holds two rows of one transaction, nor rows of two
\* different blocks of one height.
C9_OncePerTransaction ==
    /\ \A r \in DOMAIN store : store[r] = 1
    /\ Cardinality({r.txhash : r \in DOMAIN store}) = Cardinality(DOMAIN store)
    /\ Cardinality({HashOfRow(r) : r \in DOMAIN store}) = Cardinality(Blocks(store))

\* C9 witness: the block trimmed at a restart has been indexed again.
C9_Witness ==
    /\ restarted
    /\ restartH # 0
    /\ pc = "sleep"
    /\ RowsAt(store, restartH) # {}

\* C10: a failure of an RPC call or of a database operation in the loop never
\* ends the process.
C10_NeverStops ==
    ~(pc = "stopped" /\ exitCause \in {"rpc", "db"})

-----------------------------------------------------------------------------
(* Error handling, frame effects and progress *)

\* C11: a transaction without 'from' or 'to' is skipped: it has no row, the
\* process does not end on it, and every other qualifying transaction of a
\* processed block has its row.
C11_MalformedSkipped ==
    /\ \A r \in DOMAIN store : TxOfRow(r).from # Missing /\ TxOfRow(r).to # Missing
    /\ exitCause # "UnboundLocalError"
    /\ BlockProcessed
          => \A i \in 1..Len(block.transactions) :
                LET trans == block.transactions[i] IN
                (~Skipped(trans) /\ trans.from # Missing /\ trans.to # Missing)
                    => \E r \in DOMAIN store : r.txhash = trans.hash

\* C12: when the INSERT of a transaction of a block fails, no row of that
\* block remains in the table.
C12_FailedWriteLeavesNothing ==
    [][(pc = "insert" /\ exitCause' = "db") => RowsAt(store', blockHeight) = {}]_vars

\* C13: a start reaches the loop through the tail-trim only, and the tail-trim
\* deletes the rows of the highest block and no other: every row of a lower
\* block stays as it is, no row appears, and an empty table stays empty.
C13_TailTrimFrame ==
    [][/\ pc' \in {"loop", "fetch", "insert", "sleep"} => pc \notin {"startup", "stopped"}
       /\ (pc = "startup" /\ pc' = "syncwait")
             => /\ \A r \in DOMAIN store :
                      r.block # MaxBlock(store) => r \in DOMAIN store' /\ store'[r] = store[r]
                /\ \A r \in DOMAIN store' : r \in DOMAIN store /\ r.block # MaxBlock(store)
                /\ store = EmptyBag => store' = EmptyBag]_vars

\* C13 witness: a restart has trimmed the highest block of a table that holds
\* lower blocks too.
C13_Witness ==
    /\ pc = "syncwait"
    /\ restartH # 0
    /\ store # EmptyBag
    /\ MaxBlock(store) < restartH

\* C14: in the pass that finds the mismatch at the boundary height E, no row of
\* block E is written, latest_hash keeps its value while the process runs, no
\* row is added, and every row with block at or below E-1-R stays as it is.
C14_RecoveryFrame ==
    [][reorgAt' # 0
         => /\ RowsAt(store', reorgAt') = {}
            /\ pc' # "stopped" => latest_hash' = latest_hash
            /\ \A r \in DOMAIN store' : r \in DOMAIN store /\ store'[r] = store[r]
            /\ \A r \in DOMAIN store :
                  r.block <= reorgAt' - 1 - reorg_blocks
                      => r \in DOMAIN store' /\ store'[r] = store[r]]_vars

\* C14 witness: a rollback at boundary E after a reorganisation has left the
\* rows at or below E-1-R in the table and deleted those of the window.
C14_Witness ==
    /\ pc = "sleep"
    /\ reorgAt # 0
    /\ forks # <<>>
    /\ ReorgBlocksIsInt
    /\ latest_hash # NoHash
    /\ store # EmptyBag
    /\ MaxBlock(store) <= reorgAt - 1 - reorg_blocks

\* C15: a pass whose safe head is at or below the highest block of the table
\* fetches no block and leaves the table and latest_hash as they are; it goes
\* to the sleep, and every pass reads the head anew.
C15_NoProgressPass ==
    [][/\ (pc = "loop" /\ pc' \in {"fetch", "sleep"}) => headRead' = chainHead
       /\ (/\ pc = "loop"
           /\ pc' \notin {"loop", "stopped"}
           /\ store # EmptyBag
           /\ chainHead - confirmationBlocks <= MaxBlock(store))
             => /\ pc' = "sleep"
                /\ block' = NoBlock
                /\ store' = store
                /\ latest_hash' = latest_hash]_vars

\* C15 witness: the node reported a lower head than before, and the pass that
\* read it, its safe head below the highest block of the table, went to sleep.
C15_Witness ==
    /\ pc = "sleep"
    /\ store # EmptyBag
    /\ endblock < MaxBlock(store)
    /\ latest_hash # NoHash
    /\ block = NoBlock

\* C16: while no rollback and no restart happens, every block fetched and not
\* rejected at the boundary is higher than the blocks fetched before it.
C16_IncreasingOrder ==
    [][(pc = "fetch" /\ pc' # "stopped" /\ reorgAt' = 0) => blockHeight > fetchedTop]_vars

\* C17: a qualifying transaction of a block on the chain whose receipt has no
\* status gets a row with status false, and the process does not end on it.
C17_AbsentStatus ==
    [][(/\ pc = "insert"
        /\ ForkOf(forks, blockHeight) = block.hash[2]
        /\ block.transactions[txNumber + 1].status = NoStatusKey
        /\ ~Skipped(block.transactions[txNumber + 1])
        /\ exitCause' \notin {"killed", "rpc", "db"})
          => /\ pc' # "stopped"
             /\ \E r \in DOMAIN store' :
                   /\ r.txhash = block.transactions[txNumber + 1].hash
                   /\ r.status = FALSE]_vars

\* C18: on a chain that has not reorganised no pass enters the rollback branch.
C18_NoSpuriousRollback ==
    forks = <<>> => reorgAt = 0

\* The table holds exactly the rows of the blocks above the start height up to
\* the safe head, each once
Converged ==
    /\ DOMAIN store = ExpectedRows(startBlock + 1, chainHead - confirmationBlocks)
    /\ \A r \in DOMAIN store : store[r] = 1

\* C19: on a well-formed chain that does not reorganise, with the default
\* configuration, the table ends up holding exactly the rows of the blocks
\* above the start height up to the safe head, and stays so.
C19_Convergence ==
    (chainKind = "regular" /\ CONFIRMATIONS_BLOCK = NoEnv) => <>[]Converged

\* C20: between two passes, and right after the tail-trim, every height above
\* the start height up to the highest block of the table has been fetched, and
\* the table holds a row for every qualifying transaction of the block last
\* fetched there.
C20_NoGapsBelowCursor ==
    pc \in {"sleep", "syncwait"}
        => \A h \in (startBlock + 1)..MaxBlock(store) :
              /\ lastFetched[h] # NoFetch
              /\ QualifyingHashes[chainKind][h][lastFetched[h]]
                    \subseteq {r.txhash : r \in RowsAt(store, h)}

\* C20 witness: a block written in part was trimmed at a restart, the pass after
\* it has written the block again, and a block below it has no row.
C20_Witness ==
    /\ pc = "sleep"
    /\ trimmedPartial
    /\ restartH \in Blocks(store)
    /\ \E h \in (startBlock + 1)..MaxBlock(store) : RowsAt(store, h) = {}

====
